---- MODULE Spec2Model ----
(***************************************************************************)
(* Model of the turn controller of the SRE copilot agent (src/agent.py):   *)
(* SREAgent.chat running the compiled LangGraph graph                      *)
(*     START -> agent -> (tools -> agent)* -> END                          *)
(* over the MemorySaver checkpointer, one message history per thread_id.   *)
(*                                                                         *)
(* Strings are sequences of units (words); "x in s" is contiguous          *)
(* subsequence, "+" and join are concatenation.                            *)
(***************************************************************************)
EXTENDS Integers, Sequences, FiniteSets, TLC

(***************************************************************************)
(* Bounds of the model.                                                    *)
(***************************************************************************)
\* backbone invocations over all turns of all sessions
MaxLlmCalls == 3
\* tool-call requests carried by one assistant message
MaxCalls == 2

\* thread ids uuid4() hands out
MaxUuids == 2

\* agent objects built in a run (the first, and one per Refresh)
MaxAgents == 2

\* the thread ids uuid4() hands out, in order
UuidPool == <<"u1", "u2", "u3", "u4">>

\* str(uuid.uuid4()), n ids handed out before: an id never seen
uuid4(n) == UuidPool[n + 1]

Uuids == {UuidPool[i] : i \in 1..MaxUuids}

\* thread_id=None
None == "None"

Sessions == {"s1", "s2"}

\* every key of the checkpointer
Threads == Sessions \cup Uuids

(***************************************************************************)
(* Strings.                                                                *)
(***************************************************************************)
EmptyStr == <<>>

\* needle in hay (Python's substring test), over the units of the strings
Contains(hay, needle) ==
    \E i \in 0..(Len(hay) - Len(needle)) :
        \A j \in 1..Len(needle) : hay[i + j] = needle[j]

RECURSIVE JoinNl(_)
\* "\n".join(parts)
JoinNl(parts) ==
    IF parts = <<>> THEN EmptyStr
    ELSE IF Len(parts) = 1 THEN parts[1]
    ELSE parts[1] \o <<"\n">> \o JoinNl(Tail(parts))

\* filter(None, parts): the non-empty strings of parts, in order
FilterNone(parts) == SelectSeq(parts, LAMBDA p : p # EmptyStr)

SYSTEM_PROMPT == <<"You are SRE Copilot">>
NOT_CONFIGURED == <<"Error: Agent not properly configured. Please check your API keys.">>
NO_RESPONSE == <<"I apologize, but I couldn't generate a response. Please try again.">>
CONVERSATION_LIMIT_EXCEEDED == <<"CONVERSATION_LIMIT_EXCEEDED">>
ErrorPrefix == <<"Error: ">>

(***************************************************************************)
(* Messages.  content is a string or a list of content blocks.             *)
(***************************************************************************)
NoCallId == <<>>

StrContent(s) == [kind |-> "str", text |-> s, blocks |-> <<>>]
ListContent(bs) == [kind |-> "list", text |-> EmptyStr, blocks |-> bs]

\* a {"type": "text", "text": t} block
TextBlock(t) == [type |-> "text", text |-> t]
\* a block without a "text" key (tool_use); block.get("text", "") is ""
ToolUseBlock == [type |-> "tool_use", text |-> EmptyStr]

\* bool(msg.content)
Truthy(c) == IF c.kind = "str" THEN c.text # EmptyStr ELSE c.blocks # <<>>

SystemMessage(c) ==
    [type |-> "system", id |-> 0, content |-> StrContent(c),
     tool_calls |-> <<>>, tool_call_id |-> NoCallId]
HumanMessage(i, c) ==
    [type |-> "human", id |-> i, content |-> StrContent(c),
     tool_calls |-> <<>>, tool_call_id |-> NoCallId]
AIMessage(i, c, calls) ==
    [type |-> "ai", id |-> i, content |-> c,
     tool_calls |-> calls, tool_call_id |-> NoCallId]
ToolMessage(i, c, cid) ==
    [type |-> "tool", id |-> i, content |-> StrContent(c),
     tool_calls |-> <<>>, tool_call_id |-> cid]

\* one tool-call request of an assistant message; args: the names of the
\* arguments it passes
ToolCall(n, cid) == [name |-> n, id |-> cid, args |-> {}]

\* what the backbone asks for: a tool name and arguments
Req(n, a) == [name |-> n, args |-> a]

ToolCallOf(req, cid) == [ToolCall(req.name, cid) EXCEPT !.args = req.args]

(***************************************************************************)
(* Inputs: what callers submit and what the backbone may answer.           *)
(***************************************************************************)
UserTexts == {<<"Who's on-call?">>}

\* content of a backbone response without tool-call requests: "", plain
\* text, one text block
TerminalContents ==
    {StrContent(EmptyStr), StrContent(<<"a">>),
     ListContent(<<TextBlock(<<"c">>)>>)}

\* content of a backbone response with tool-call requests: the tool_use
\* blocks alone, or text before them
ToolCallContents ==
    {ListContent(<<ToolUseBlock>>),
     ListContent(<<TextBlock(<<"b">>), ToolUseBlock>>)}

Contents == TerminalContents \cup ToolCallContents

\* the elements of a list
Range(seq) == {seq[i] : i \in 1..Len(seq)}

\* names of the tools create_datadog_tools returns, in order
create_datadog_tools ==
    <<"datadog_get_apm_services", "datadog_get_service_stats",
      "datadog_search_traces", "datadog_get_trace_details">>

\* names of the tools create_pagerduty_tools returns, in order
create_pagerduty_tools ==
    <<"pagerduty_get_incidents", "pagerduty_get_incident_details",
      "pagerduty_get_oncall", "pagerduty_get_services",
      "pagerduty_acknowledge_incident", "pagerduty_resolve_incident",
      "pagerduty_get_recent_alerts">>

\* names of the tools create_kubernetes_tools returns, in order
create_kubernetes_tools ==
    <<"k8s_get_contexts", "k8s_get_namespaces", "k8s_list_pods",
      "k8s_get_pod_logs">>

\* names of the tools create_sqs_tools returns, in order
create_sqs_tools ==
    <<"sqs_list_queues", "sqs_get_queue_attributes", "sqs_peek_messages",
      "sqs_get_queue_url">>

DatadogToolNames == Range(create_datadog_tools)

PagerDutyToolNames == Range(create_pagerduty_tools)

KubernetesToolNames == Range(create_kubernetes_tools)

SqsToolNames == Range(create_sqs_tools)

(***************************************************************************)
(* Config: the capability gate.  A key is "" or a non-empty string.        *)
(***************************************************************************)
Keys == {EmptyStr, <<"key">>}

Configs ==
    [anthropic_api_key : Keys, datadog_api_key : Keys, datadog_app_key : Keys,
     pagerduty_api_key : Keys, k8s_enabled : BOOLEAN, sqs_enabled : BOOLEAN]

\* bool(s) of a string
Bool(s) == s # EmptyStr

is_anthropic_configured(c) == Bool(c.anthropic_api_key)

\* either key is enough
is_datadog_configured_either(c) ==
    Bool(c.datadog_api_key) \/ Bool(c.datadog_app_key)

is_datadog_configured(c) ==
    Bool(c.datadog_api_key) /\ Bool(c.datadog_app_key)

is_pagerduty_configured(c) == Bool(c.pagerduty_api_key)

\* exists: os.path.exists of the kubeconfig path at the time of the call
is_kubernetes_configured(c, exists) == c.k8s_enabled /\ exists

is_sqs_configured(c) == c.sqs_enabled

\* _setup_tools: self._tools, by name
setup_tools(c, exists) ==
    (IF is_datadog_configured(c) THEN create_datadog_tools ELSE <<>>)
    \o (IF is_pagerduty_configured(c) THEN create_pagerduty_tools ELSE <<>>)
    \o (IF is_kubernetes_configured(c, exists) THEN create_kubernetes_tools
        ELSE <<>>)
    \o (IF is_sqs_configured(c) THEN create_sqs_tools ELSE <<>>)

\* the names the tools node and bind_tools know
SetupTools(c, exists) == Range(setup_tools(c, exists))

\* get_status
get_status(c, exists, registry, graph) ==
    [claude_configured |-> is_anthropic_configured(c),
     datadog_configured |-> is_datadog_configured(c),
     pagerduty_configured |-> is_pagerduty_configured(c),
     kubernetes_configured |-> is_kubernetes_configured(c, exists),
     sqs_configured |-> is_sqs_configured(c),
     available_tools |-> Len(registry),
     graph_ready |-> graph]

\* the graph compiled whatever the backbone configuration
SetupGraphAlways(c) == TRUE

\* _setup_llm and _setup_graph: self._compiled_graph is set
SetupGraph(c) == is_anthropic_configured(c)

\* a Config with the given keys and switches
MakeConfig(anthropic, dd, pd, k8s, sqs) ==
    [anthropic_api_key |-> IF anthropic THEN <<"key">> ELSE EmptyStr,
     datadog_api_key |-> IF dd THEN <<"key">> ELSE EmptyStr,
     datadog_app_key |-> IF dd THEN <<"key">> ELSE EmptyStr,
     pagerduty_api_key |-> IF pd THEN <<"key">> ELSE EmptyStr,
     k8s_enabled |-> k8s, sqs_enabled |-> sqs]

\* the deployments the turn controller is explored with: no integration,
\* Datadog only, PagerDuty only, each with and without the backbone key
TurnConfigs ==
    {MakeConfig(a, FALSE, FALSE, FALSE, FALSE) : a \in BOOLEAN}
    \cup {MakeConfig(a, TRUE, FALSE, FALSE, FALSE) : a \in BOOLEAN}
    \cup {MakeConfig(a, FALSE, TRUE, FALSE, FALSE) : a \in BOOLEAN}

\* names the backbone puts in its requests; the on-call lookup is in the
\* registry of an agent with PagerDuty and in no other
BackboneNames == {"pagerduty_get_oncall"}

\* the name lists of the tool-call requests of one response (<<>>: none)
CallNames == UNION {[1..k -> BackboneNames] : k \in 0..MaxCalls}

\* the requests of one response, by name, without arguments
CallRequests ==
    {[j \in 1..Len(names) |-> Req(names[j], {})] : names \in CallNames}

\* messages of the exceptions the backbone client raises
ErrorTexts ==
    {<<"prompt", "is", "too", "long">>,
     <<"maximum", "context", "length", "is", "200000", "tokens">>,
     <<"maximum", "context", "length", "exceeded">>,
     <<"too", "many", "tokens">>,
     <<"long", "prompt", "is", "too">>,
     <<"rate", "limit">>}

(***************************************************************************)
(* The graph state and its nodes.                                          *)
(***************************************************************************)
\* a messages channel without reducer: the update replaces the value
add_messages_overwrite(left, right) == right

RECURSIVE add_messages(_, _)
\* the reducer of AgentState.messages: a message whose id is already in the
\* list replaces that entry, any other message is appended
add_messages(left, right) ==
    IF right = <<>> THEN left
    ELSE LET m == Head(right)
             hit == {i \in 1..Len(left) : left[i].id = m.id}
             merged == IF hit = {} THEN Append(left, m)
                       ELSE [i \in 1..Len(left) |->
                                IF i \in hit THEN m ELSE left[i]]
         IN add_messages(merged, Tail(right))

\* the system message prepended to an empty list only
AgentMessagesEmptyOnly(messages) ==
    IF messages = <<>>
    THEN <<SystemMessage(SYSTEM_PROMPT)>> \o messages
    ELSE messages

\* agent_node: the list handed to self._llm.invoke
AgentMessages(messages) ==
    IF messages = <<>> \/ messages[1].type # "system"
    THEN <<SystemMessage(SYSTEM_PROMPT)>> \o messages
    ELSE messages

\* the prepended system message returned with the response
AgentNodeUpdateWithSystem(response) ==
    <<SystemMessage(SYSTEM_PROMPT), response>>

\* agent_node: the state update it returns
AgentNodeUpdate(response) == <<response>>

\* should_use_tools
should_use_tools(messages) ==
    IF messages[Len(messages)].tool_calls # <<>> THEN "tools" ELSE "END"

\* the edge taken after the agent node: conditional only when the graph has
\* a tools node
AfterAgent(registry, messages) ==
    IF registry # {} THEN should_use_tools(messages) ELSE "END"

(***************************************************************************)
(* The incident integration: PagerDutyTools and its LangChain wrappers.    *)
(* env is the world a tool call runs in: [session, api_key, backend];      *)
(* session: self._session is set; backend: how the PagerDuty API answers.  *)
(***************************************************************************)
Backends == {"up", "unauthorized", "forbidden", "down"}

ToolEnv(session, api_key, be) ==
    [session |-> session, api_key |-> api_key, backend |-> be]

\* str(e) of the exception a request raises against a failing backend
BackendError(be) ==
    IF be = "unauthorized" THEN <<"401", "Client", "Error:", "Unauthorized">>
    ELSE IF be = "forbidden" THEN <<"Forbidden">>
    ELSE <<"Connection", "timed", "out">>

\* str.lower(), word by word
LowerWord(w) ==
    IF w = "Unauthorized" THEN "unauthorized"
    ELSE IF w = "Forbidden" THEN "forbidden"
    ELSE IF w = "Connection" THEN "connection"
    ELSE IF w = "Client" THEN "client"
    ELSE IF w = "Error:" THEN "error:"
    ELSE w

Lower(str) == [i \in 1..Len(str) |-> LowerWord(str[i])]

\* a dict with one entry, and its str()
Dict(k, v) == [key |-> k, value |-> v]

DictStr(d) == <<"{'", d.key, "': '">> \o d.value \o <<"'}">>

\* the exception passed on to the caller
handle_error_reraise(api_key, error_str, operation) ==
    [raised |-> TRUE, dict |-> Dict("exception", error_str)]

\* PagerDutyTools._handle_error
handle_error(api_key, error_str, operation) ==
    [raised |-> FALSE,
     dict |->
        IF \/ Contains(error_str, <<"401">>)
           \/ Contains(Lower(error_str), <<"unauthorized">>)
           \/ Contains(Lower(error_str), <<"authentication">>)
        THEN IF ~Bool(api_key)
             THEN Dict("error", <<"PagerDuty API key not configured. Please add PAGERDUTY_API_KEY environment variable.">>)
             ELSE Dict("error", <<"PagerDuty authentication failed. Please check that your API key is valid.">>)
        ELSE IF \/ Contains(error_str, <<"403">>)
                \/ Contains(Lower(error_str), <<"forbidden">>)
        THEN Dict("error", <<"PagerDuty permission denied. Please check that your API key has the required permissions.">>)
        ELSE Dict("error", <<"Failed to ", operation, ": ">> \o error_str)]

\* the operation name each method passes to _handle_error
Operation(name) ==
    IF name = "pagerduty_get_incidents" THEN "fetch incidents"
    ELSE IF name = "pagerduty_get_incident_details"
    THEN "fetch incident details"
    ELSE IF name = "pagerduty_get_oncall" THEN "fetch on-call information"
    ELSE IF name = "pagerduty_get_services" THEN "fetch services"
    ELSE IF name = "pagerduty_acknowledge_incident"
    THEN "acknowledge incident"
    ELSE IF name = "pagerduty_resolve_incident" THEN "resolve incident"
    ELSE "fetch alerts"

\* the requests a method sends to the API session when none of them fails
OpRequests(name) ==
    IF name = "pagerduty_get_incident_details"
    THEN <<"rget", "rget", "list_all">>
    ELSE IF name \in {"pagerduty_acknowledge_incident",
                      "pagerduty_resolve_incident"}
    THEN <<"rput">>
    ELSE <<"list_all">>

\* the request sent again after it failed
PagerDutyRequestsRetry(name, env) ==
    IF ~env.session THEN <<>>
    ELSE IF env.backend = "up" THEN OpRequests(name)
    ELSE <<Head(OpRequests(name)), Head(OpRequests(name))>>

\* the requests one method call sends: none without session; against a
\* failing backend the first one raises and ends the method
PagerDutyRequests(name, env) ==
    IF ~env.session THEN <<>>
    ELSE IF env.backend = "up" THEN OpRequests(name)
    ELSE <<Head(OpRequests(name))>>

\* a method of PagerDutyTools: the dict it returns
PagerDutyOp(name, env) ==
    IF ~env.session
    THEN [raised |-> FALSE,
          dict |-> Dict("error", <<"PagerDuty client not configured">>)]
    ELSE IF env.backend = "up"
    THEN [raised |-> FALSE, dict |-> Dict("result", <<name>>)]
    ELSE handle_error(env.api_key, BackendError(env.backend), Operation(name))

\* the required fields of the args_schema of a tool
RequiredArgs(name) ==
    IF name \in {"pagerduty_get_incident_details",
                 "pagerduty_acknowledge_incident",
                 "pagerduty_resolve_incident"}
    THEN {"incident_id"}
    ELSE {}

\* the arguments pass the args_schema
ValidArgs(call) == RequiredArgs(call.name) \subseteq call.args

\* the wrapped method is called: the tool is registered, the arguments valid
Invoked(registry, call) == call.name \in registry /\ ValidArgs(call)

\* RunTool without the args_schema check: the wrapped method always runs
RunToolUnvalidated(registry, env, call) ==
    IF call.name \notin registry
    THEN <<"Error: ", call.name, " is not a valid tool, try one of [">>
         \o <<"..."  , "].">>
    ELSE LET r == PagerDutyOp(call.name, env)
         IN IF r.raised
            THEN <<"Error: ">> \o r.dict.value
                 \o <<" Please fix your mistakes.">>
            ELSE DictStr(r.dict)

\* RunTool whose answer to an unknown name does not say which name it was
RunToolUnnamed(registry, env, call) ==
    IF call.name \notin registry
    THEN <<"Error: ", "not a valid tool">>
    ELSE IF ~ValidArgs(call)
    THEN <<"Error: ", "ValidationError", call.name,
           " Please fix your mistakes.">>
    ELSE LET r == PagerDutyOp(call.name, env)
         IN IF r.raised
            THEN <<"Error: ">> \o r.dict.value
                 \o <<" Please fix your mistakes.">>
            ELSE DictStr(r.dict)

\* what the tools node answers to one request
RunTool(registry, env, call) ==
    IF call.name \notin registry
    THEN <<"Error: ", call.name, " is not a valid tool, try one of [">>
         \o <<"..."  , "].">>
    ELSE IF ~ValidArgs(call)
    THEN <<"Error: ", "ValidationError", call.name,
           " Please fix your mistakes.">>
    ELSE LET r == PagerDutyOp(call.name, env)
         IN IF r.raised
            THEN <<"Error: ">> \o r.dict.value
                 \o <<" Please fix your mistakes.">>
            ELSE DictStr(r.dict)

\* the requests the tools node causes for one request of the backbone
ToolRequests(registry, env, call) ==
    IF Invoked(registry, call)
    THEN [i \in 1..Len(PagerDutyRequests(call.name, env)) |->
             [call |-> call.id, method |-> PagerDutyRequests(call.name, env)[i]]]
    ELSE <<>>

\* only the first request answered
ToolNodeMessagesFirstOnly(registry, env, last, firstId) ==
    <<ToolMessage(firstId, RunTool(registry, env, last.tool_calls[1]),
                  last.tool_calls[1].id)>>

\* the tools node: one ToolMessage per request of the last message
ToolNodeMessages(registry, env, last, firstId) ==
    [j \in 1..Len(last.tool_calls) |->
        ToolMessage(firstId + j - 1,
                    RunTool(registry, env, last.tool_calls[j]),
                    last.tool_calls[j].id)]

RECURSIVE ToolNodeRequests(_, _, _)
\* the requests of a tools step, in the order of the calls
ToolNodeRequests(registry, env, calls) ==
    IF calls = <<>> THEN <<>>
    ELSE ToolRequests(registry, env, Head(calls))
         \o ToolNodeRequests(registry, env, Tail(calls))

(***************************************************************************)
(* chat: the value returned.                                               *)
(***************************************************************************)
\* the text_parts of a block list
TextParts(blocks) == [i \in 1..Len(blocks) |-> blocks[i].text]

RECURSIVE ScanReversed(_, _)
\* for msg in reversed(messages): first AIMessage with content
ScanReversed(messages, i) ==
    IF i = 0 THEN NO_RESPONSE
    ELSE IF messages[i].type = "ai" /\ Truthy(messages[i].content)
         THEN IF messages[i].content.kind = "list"
              THEN JoinNl(FilterNone(TextParts(messages[i].content.blocks)))
              ELSE messages[i].content.text
         ELSE ScanReversed(messages, i - 1)

\* the scan run from the oldest message on
ExtractResponseOldest(messages) ==
    LET found == {i \in 1..Len(messages) :
                     messages[i].type = "ai" /\ Truthy(messages[i].content)}
    IN IF found = {} THEN NO_RESPONSE
       ELSE ScanReversed(messages,
                         CHOOSE i \in found : \A j \in found : i <= j)

ExtractResponse(messages) == ScanReversed(messages, Len(messages))

\* "tokens" or "maximum" alone is enough
IsTokenLimitEitherWord(error_str) ==
    \/ Contains(error_str, <<"prompt", "is", "too", "long">>)
    \/ Contains(error_str, <<"tokens">>)
    \/ Contains(error_str, <<"maximum">>)

\* only the first phrase tested
IsTokenLimitPromptOnly(error_str) ==
    Contains(error_str, <<"prompt", "is", "too", "long">>)

\* the token-limit test of the except branch
IsTokenLimit(error_str) ==
    \/ Contains(error_str, <<"prompt", "is", "too", "long">>)
    \/ (Contains(error_str, <<"tokens">>) /\ Contains(error_str, <<"maximum">>))

\* the generic branch raising again instead of returning
ChatExceptReraise(error_str) ==
    IF IsTokenLimit(error_str)
    THEN [outcome |-> "failed", result |-> CONVERSATION_LIMIT_EXCEEDED]
    ELSE [outcome |-> "raised", result |-> EmptyStr]

\* except Exception as e: the value returned and how the call ended
ChatExcept(error_str) ==
    [outcome |-> "failed",
     result |-> IF IsTokenLimit(error_str) THEN CONVERSATION_LIMIT_EXCEEDED
                ELSE ErrorPrefix \o error_str]

(***************************************************************************)
(* chat_stream: what the generator yields                                  *)
(***************************************************************************)
\* f"\n\n*Using {tool_call['name']}...*\n"
Marker(name) == <<"*Using ", name, "...*">>

\* the text fragments of a content: the string, or the text of every block
\* that has one
StreamText(content) ==
    IF ~Truthy(content) THEN <<>>
    ELSE IF content.kind = "list"
         THEN FilterNone(TextParts(content.blocks))
         ELSE <<content.text>>

\* one marker for the first tool call only
StreamMarkersFirstOnly(calls) ==
    IF calls = <<>> THEN <<>> ELSE <<Marker(calls[1].name)>>

\* for tool_call in last_msg.tool_calls: yield the marker
StreamMarkers(calls) == [j \in 1..Len(calls) |-> Marker(calls[j].name)]

\* the body of the loop over graph.stream(stream_mode="values"): what one
\* event makes the generator yield
StreamEvent(messages) ==
    IF messages = <<>> THEN <<>>
    ELSE LET last_msg == messages[Len(messages)]
         IN IF last_msg.type = "ai"
            THEN StreamText(last_msg.content)
                 \o StreamMarkers(last_msg.tool_calls)
            ELSE <<>>

\* the except branch of chat, taken for chat_stream's
StreamExceptAsChat(error_str) ==
    IF IsTokenLimit(error_str) THEN CONVERSATION_LIMIT_EXCEEDED
    ELSE ErrorPrefix \o error_str

\* except Exception as e of chat_stream: the fragment yielded
StreamExcept(error_str) == ErrorPrefix \o error_str

\* the step limit of a graph invocation whose config sets none
RECURSION_LIMIT == 25

\* str(GraphRecursionError)
GraphRecursionError == <<"Recursion", "limit", "of", "25", "reached">>

(***************************************************************************)
(* get_conversation_history                                                *)
(***************************************************************************)
\* the first isinstance test matching every message
HistoryRoleAllUser(msg) == "user"

HistoryRole(msg) == IF msg.type = "human" THEN "user" ELSE "assistant"

HistoryContent(msg) ==
    IF msg.content.kind = "list" THEN JoinNl(TextParts(msg.content.blocks))
    ELSE msg.content.text

\* messages that get an entry: HumanMessage, and AIMessage with content
InHistory(msg) ==
    msg.type = "human" \/ (msg.type = "ai" /\ Truthy(msg.content))

RECURSIVE HistoryOf(_)
HistoryOf(messages) ==
    IF messages = <<>> THEN <<>>
    ELSE (IF InHistory(Head(messages))
          THEN <<[role |-> HistoryRole(Head(messages)),
                  content |-> HistoryContent(Head(messages))]>>
          ELSE <<>>) \o HistoryOf(Tail(messages))

(***************************************************************************)
(* State.                                                                  *)
(***************************************************************************)
VARIABLES
    config,     \* self.config
    kubeconfig, \* the kubeconfig file exists
    llm,        \* self._compiled_graph is set (the backbone is configured)
    registry,   \* self._tools, by name
    tools,      \* names the tools node and the bound backbone know
    kubeBuilt,  \* the kubeconfig file existed when the agent was built
    pdSession,  \* PagerDutyTools._session is set
    backend,    \* how the PagerDuty API answers
    requests,   \* the API requests of the last tools step
    store,      \* the checkpointer: thread_id -> messages
    pc,         \* "idle", or the node about to run: "agent", "tools"
    thread,     \* thread_id of the running / last turn
    rounds,     \* tool rounds completed in the turn
    nextId,     \* next fresh message id
    turns,      \* turns started
    outcome,    \* how the last chat call ended
    result,     \* value the last chat call returned
    errText,    \* message of the exception of the last failed turn
    llmInput,   \* list handed to the last backbone invocation
    llmCalls,   \* backbone invocations of the turn
    llmTotal,   \* backbone invocations so far
    histBefore, \* the thread's stored messages when chat was called
    userMsg,    \* the HumanMessage of the turn
    appended,   \* thread_id -> every message added to its state, in order
    stream,     \* the running / last turn is a chat_stream call
    fragments,  \* what the last chat_stream call has yielded
    steps,      \* supersteps of the running graph invocation
    statusLog,  \* the last two get_status calls: what each returned and
                \* whether the kubeconfig file existed
    histRead,   \* what the last get_conversation_history call returned
    arg,        \* the thread_id argument of the running / last call
    uuids,      \* thread ids uuid4() has handed out
    agentNo,    \* SREAgent objects built so far; the variables describe
                \* the latest
    st_messages,   \* st.session_state.messages, the displayed transcript
    st_thread_id,  \* st.session_state.thread_id
    front       \* "idle", or "waiting": the page is inside agent.chat

vars == <<config, kubeconfig, llm, registry, tools, kubeBuilt, pdSession,
          backend, requests, store, pc, thread, rounds, nextId, turns, outcome,
          result, errText, llmInput, llmCalls, llmTotal, histBefore, userMsg,
          appended, stream, fragments, steps, statusLog, histRead, arg,
          uuids, agentNo, st_messages, st_thread_id, front>>

NoMsg == HumanMessage(0, EmptyStr)

\* __post_init__, and nothing submitted yet
TurnInit ==
    /\ llm = SetupGraph(config)
    /\ registry = setup_tools(config, kubeconfig)
    /\ tools = SetupTools(config, kubeconfig)
    /\ kubeBuilt = kubeconfig
    /\ requests = <<>>
    /\ store = [s \in Threads |-> <<>>]
    /\ pc = "idle"
    /\ thread = "s1"
    /\ rounds = 0
    /\ nextId = 1
    /\ turns = 0
    /\ outcome = "none"
    /\ result = EmptyStr
    /\ errText = EmptyStr
    /\ llmInput = <<>>
    /\ llmCalls = 0
    /\ llmTotal = 0
    /\ histBefore = <<>>
    /\ userMsg = NoMsg
    /\ appended = [s \in Threads |-> <<>>]
    /\ stream = FALSE
    /\ fragments = <<>>
    /\ steps = 0
    /\ statusLog = <<>>
    /\ histRead = <<>>
    /\ arg = None
    /\ agentNo = 1

\* an agent used directly: no page, no thread id handed out
NoFrontEnd ==
    /\ uuids = 0
    /\ st_messages = <<>>
    /\ st_thread_id = None
    /\ front = "idle"

Init ==
    /\ config \in TurnConfigs
    /\ kubeconfig = FALSE
    /\ pdSession = is_pagerduty_configured(config)
    /\ backend = "up"
    /\ TurnInit
    /\ NoFrontEnd


\* the agent's configuration and what __post_init__ built from it
agentVars == <<config, kubeconfig, llm, registry, tools, kubeBuilt,
               pdSession, backend, statusLog, histRead, agentNo>>

\* the page
frontVars == <<st_messages, st_thread_id, front>>

\* if not thread_id: thread_id = str(uuid.uuid4()), always the same id
ThreadIdDefault(tid, n) == IF tid = None THEN UuidPool[1] ELSE tid

\* if not thread_id: thread_id = str(uuid.uuid4())
ThreadId(tid, n) == IF tid = None THEN uuid4(n) ELSE tid

\* every call on one thread
ThreadConfigShared(tid) == "s1"

\* config["configurable"]["thread_id"]: the checkpoint the graph works on
ThreadConfig(tid) == tid

\* the world the tools of the agent run in
Env == ToolEnv(pdSession, config.pagerduty_api_key, backend)

\* the checkpoint of a thread rolled back when the graph raises
CheckpointAfterErrorRollback(saved, before) == before

\* MemorySaver: the thread's checkpoint after the graph raised is the one
\* written by the last completed step
CheckpointAfterError(saved, before) == saved

\* chat without a compiled graph
ChatNotConfigured(tid, text) ==
    /\ pc = "idle"
    /\ ~llm
    /\ outcome' = "notconfigured"
    /\ result' = NOT_CONFIGURED
    /\ thread' = tid
    /\ arg' = tid
    /\ stream' = FALSE
    /\ UNCHANGED <<agentVars, requests, store, pc, rounds, nextId, turns, errText,
                   llmInput, llmCalls, llmTotal, histBefore, userMsg,
                   appended, fragments, steps, uuids, frontVars>>

\* chat and chat_stream hand input_state and the thread's config to the
\* graph: the input is merged into the thread's checkpoint
Submit(tid, text, input) ==
    /\ pc = "idle"
    /\ llm
    /\ tid = None => uuids < MaxUuids
    /\ arg' = tid
    /\ uuids' = IF tid = None THEN uuids + 1 ELSE uuids
    /\ LET key == ThreadConfig(ThreadId(tid, uuids))
       IN /\ store' = [store EXCEPT ![key] = add_messages(@, input)]
          /\ appended' = [appended EXCEPT ![key] = @ \o input]
          /\ histBefore' = store[key]
          /\ thread' = key
    /\ userMsg' = HumanMessage(nextId, text)
    /\ pc' = "agent"
    /\ rounds' = 0
    /\ nextId' = nextId + 1
    /\ turns' = turns + 1
    /\ outcome' = "running"
    /\ result' = EmptyStr
    /\ errText' = EmptyStr
    /\ llmInput' = <<>>
    /\ llmCalls' = 0
    /\ requests' = <<>>
    /\ fragments' = <<>>
    /\ steps' = 0
    /\ UNCHANGED <<agentVars, llmTotal>>

\* input_state["messages"] of chat
ChatInputState(id, text) == <<HumanMessage(id, text)>>

\* chat
Chat(tid, text) ==
    /\ llmTotal < MaxLlmCalls
    /\ stream' = FALSE
    /\ Submit(tid, text, ChatInputState(nextId, text))
    /\ UNCHANGED frontVars

\* the graph ran into its step limit before the node that is due
OutOfSteps == steps >= RECURSION_LIMIT

\* the agent node, the backbone answering; then the tools node is next or
\* the graph ends; chat returns the answer, chat_stream yields what the
\* new last message holds
AgentStep(content, reqs) ==
    /\ pc = "agent"
    /\ ~OutOfSteps
    /\ content \in (IF reqs = <<>> THEN TerminalContents ELSE ToolCallContents)
    /\ reqs # <<>> => tools # {}
    /\ LET calls == [j \in 1..Len(reqs) |-> ToolCallOf(reqs[j], <<nextId, j>>)]
           response == AIMessage(nextId, content, calls)
           update == AgentNodeUpdate(response)
           messages == add_messages(store[thread], update)
       IN /\ llmInput' = AgentMessages(store[thread])
          /\ store' = [store EXCEPT ![thread] = messages]
          /\ appended' = [appended EXCEPT ![thread] = @ \o update]
          /\ fragments' = IF stream
                          THEN fragments \o StreamEvent(messages)
                          ELSE fragments
          /\ IF AfterAgent(tools, messages) = "tools"
             THEN /\ pc' = "tools"
                  /\ UNCHANGED <<outcome, result>>
             ELSE /\ pc' = "idle"
                  /\ outcome' = "done"
                  /\ result' = IF stream THEN result
                               ELSE ExtractResponse(messages)
    /\ llmCalls' = llmCalls + 1
    /\ llmTotal' = llmTotal + 1
    /\ nextId' = nextId + 1
    /\ steps' = steps + 1
    /\ UNCHANGED <<agentVars, requests, thread, rounds, turns, errText,
                   histBefore, userMsg, stream, arg, uuids, frontVars>>

AgentNode(content, reqs) ==
    /\ reqs # <<>> => llmTotal + 1 < MaxLlmCalls
    /\ AgentStep(content, reqs)

\* an exception leaves the graph: chat's except branch returns, the one of
\* chat_stream yields
Raised(error_str) ==
    /\ pc' = "idle"
    /\ outcome' = IF stream THEN "failed" ELSE ChatExcept(error_str).outcome
    /\ result' = IF stream THEN result ELSE ChatExcept(error_str).result
    /\ fragments' = IF stream
                    THEN Append(fragments, StreamExcept(error_str))
                    ELSE fragments
    /\ errText' = error_str
    /\ store' = [store EXCEPT ![thread] = CheckpointAfterError(@, histBefore)]
    /\ UNCHANGED <<agentVars, requests, thread, rounds, nextId, turns,
                   histBefore, userMsg, appended, stream, steps, arg, uuids,
                   frontVars>>

\* the agent node, the backbone raising
AgentNodeRaises(error_str) ==
    /\ pc = "agent"
    /\ ~OutOfSteps
    /\ llmInput' = AgentMessages(store[thread])
    /\ llmCalls' = llmCalls + 1
    /\ llmTotal' = llmTotal + 1
    /\ Raised(error_str)

\* the tools node
ToolNode ==
    /\ pc = "tools"
    /\ ~OutOfSteps
    /\ LET last == store[thread][Len(store[thread])]
           update == ToolNodeMessages(tools, Env, last, nextId)
       IN /\ requests' = ToolNodeRequests(tools, Env, last.tool_calls)
          /\ store' = [store EXCEPT ![thread] = add_messages(@, update)]
          /\ appended' = [appended EXCEPT ![thread] = @ \o update]
          /\ nextId' = nextId + Len(update)
    /\ rounds' = rounds + 1
    /\ pc' = "agent"
    /\ steps' = steps + 1
    /\ UNCHANGED <<agentVars, thread, turns, outcome, result, errText,
                   llmInput, llmCalls, llmTotal, histBefore, userMsg,
                   stream, fragments, arg, uuids, frontVars>>

\* the graph stops a run that used up its steps while a node is still due
GraphOutOfSteps ==
    /\ pc \in {"agent", "tools"}
    /\ OutOfSteps
    /\ Raised(GraphRecursionError)
    /\ UNCHANGED <<llmInput, llmCalls, llmTotal>>

\* chat_stream without a compiled graph
ChatStreamNotConfigured(tid, text) ==
    /\ pc = "idle"
    /\ ~llm
    /\ outcome' = "notconfigured"
    /\ fragments' = <<NOT_CONFIGURED>>
    /\ thread' = tid
    /\ arg' = tid
    /\ stream' = TRUE
    /\ UNCHANGED <<agentVars, requests, store, pc, rounds, nextId, turns, errText,
                   llmInput, llmCalls, llmTotal, histBefore, userMsg,
                   appended, result, steps, uuids, frontVars>>

\* input_state["messages"] of chat_stream
StreamInputState(id, text) == <<HumanMessage(id, text)>>

\* chat_stream
ChatStream(tid, text) ==
    /\ llmTotal < MaxLlmCalls
    /\ stream' = TRUE
    /\ Submit(tid, text, StreamInputState(nextId, text))
    /\ UNCHANGED frontVars

\* the latest entry of the log of get_status calls, if any
LastCall(log) == IF log = <<>> THEN <<>> ELSE <<log[Len(log)]>>

\* get_status running _setup_tools again
GetStatusRebuilds ==
    /\ statusLog' =
           LastCall(statusLog)
           \o <<[status |-> get_status(config, kubeconfig, registry, llm),
                 kubeconfig |-> kubeconfig]>>
    /\ registry' = setup_tools(config, kubeconfig)
    /\ tools' = SetupTools(config, kubeconfig)
    /\ UNCHANGED <<config, kubeconfig, llm, kubeBuilt,
                   pdSession, backend, requests, store, pc, thread, rounds,
                   nextId, turns, outcome, result, errText, llmInput,
                   llmCalls, llmTotal, histBefore, userMsg, appended, stream,
                   fragments, steps, histRead, arg, uuids, agentNo,
                   frontVars>>

\* get_status
GetStatus ==
    /\ statusLog' =
           LastCall(statusLog)
           \o <<[status |-> get_status(config, kubeconfig, registry, llm),
                 kubeconfig |-> kubeconfig]>>
    /\ UNCHANGED <<config, kubeconfig, llm, registry, tools, kubeBuilt,
                   pdSession, backend, requests, store, pc, thread, rounds,
                   nextId, turns, outcome, result, errText, llmInput,
                   llmCalls, llmTotal, histBefore, userMsg, appended, stream,
                   fragments, steps, histRead, arg, uuids, agentNo,
                   frontVars>>

\* the kubeconfig file is created or removed
KubeconfigChanges ==
    /\ kubeconfig' = ~kubeconfig
    /\ UNCHANGED <<config, llm, registry, tools, kubeBuilt, pdSession,
                   backend, statusLog, requests, store, pc, thread, rounds,
                   nextId, turns, outcome, result, errText, llmInput,
                   llmCalls, llmTotal, histBefore, userMsg, appended, stream,
                   fragments, steps, histRead, arg, uuids, agentNo,
                   frontVars>>

Next ==
    \/ \E tid \in Sessions, text \in UserTexts : ChatNotConfigured(tid, text)
    \/ \E tid \in Sessions, text \in UserTexts : Chat(tid, text)
    \/ \E content \in Contents, reqs \in CallRequests : AgentNode(content, reqs)
    \/ \E error_str \in ErrorTexts : AgentNodeRaises(error_str)
    \/ ToolNode

Spec == Init /\ [][Next]_vars

\* get_conversation_history(thread_id)
get_conversation_history(tid) ==
    IF ~llm THEN <<>> ELSE HistoryOf(store[tid])

(***************************************************************************)
(* Helpers of the properties.                                              *)
(***************************************************************************)
Last(ms) == ms[Len(ms)]

IsPrefix(p, q) == Len(p) <= Len(q) /\ SubSeq(q, 1, Len(p)) = p

\* the text a message content carries
TextOf(c) ==
    IF c.kind = "list" THEN JoinNl(FilterNone(TextParts(c.blocks)))
    ELSE c.text

\* the assistant messages of ms that carry tool-call requests
Requesting(ms) ==
    {i \in 1..Len(ms) : ms[i].type = "ai" /\ ms[i].tool_calls # <<>>}

\* every request of ms[i] has its result right behind ms[i], and nothing else
ResultsFollow(ms, i) ==
    LET k == Len(ms[i].tool_calls)
    IN /\ i + k <= Len(ms)
       /\ \A j \in 1..k : ms[i + j].type = "tool"
       /\ {ms[i + j].tool_call_id : j \in 1..k}
            = {ms[i].tool_calls[j].id : j \in 1..k}
       /\ Cardinality({ms[i + j].tool_call_id : j \in 1..k}) = k
       /\ (i + k < Len(ms) => ms[i + k + 1].type # "tool")

AllResultsFollow(ms) == \A i \in Requesting(ms) : ResultsFollow(ms, i)

\* position of the turn's user message among the messages of its thread
UserIndex ==
    CHOOSE i \in 1..Len(appended[thread]) : appended[thread][i] = userMsg

C2_ReturnsTrailingText ==
    outcome = "done" =>
        /\ Last(store[thread]).type = "ai"
        /\ Last(store[thread]).tool_calls = <<>>
        /\ result \in {TextOf(Last(store[thread]).content), NO_RESPONSE}

(***************************************************************************)
(* C3: a successful turn whose terminating response has no text returns    *)
(* the fallback string, and the value of a successful turn is never empty. *)
(***************************************************************************)
C3_FallbackAndNonEmpty ==
    outcome = "done" =>
        /\ result # EmptyStr
        /\ (TextOf(Last(store[thread]).content) = EmptyStr
                => result = NO_RESPONSE)

(***************************************************************************)
(* C4 as stated: a backbone exception whose message contains "maximum      *)
(* context length" makes chat return the sentinel.                         *)
(***************************************************************************)
C4_MaximumContextLengthIsSentinel ==
    (outcome = "failed"
        /\ Contains(errText, <<"maximum", "context", "length">>))
    => result = CONVERSATION_LIMIT_EXCEEDED

(***************************************************************************)
(* C4 amended: a backbone exception whose message contains "maximum        *)
(* context length" and also "tokens" makes chat return the sentinel.       *)
(***************************************************************************)
C4_MaximumContextLengthTokensIsSentinel ==
    (outcome = "failed"
        /\ Contains(errText, <<"maximum", "context", "length">>)
        /\ Contains(errText, <<"tokens">>))
    => result = CONVERSATION_LIMIT_EXCEEDED

C4_Witness ==
    /\ outcome = "failed"
    /\ Contains(errText, <<"maximum", "context", "length">>)
    /\ Contains(errText, <<"tokens">>)
    /\ result = CONVERSATION_LIMIT_EXCEEDED

(***************************************************************************)
(* C5: chat never raises; a turn ended by a backbone failure, at the first *)
(* decision or after tool rounds, returns the sentinel or "Error: " with   *)
(* the error text.                                                         *)
(***************************************************************************)
C5_NeverRaises ==
    /\ outcome # "raised"
    /\ outcome = "failed" =>
        /\ pc = "idle"
        /\ result \in {CONVERSATION_LIMIT_EXCEEDED, ErrorPrefix \o errText}

C5_Witness ==
    /\ outcome = "failed"
    /\ rounds >= 1
    /\ result = ErrorPrefix \o errText

(***************************************************************************)
(* C6: after a turn ended by a backbone failure the stored history is what *)
(* the failed invocation saw: the earlier history, the turn's user message *)
(* and every completed tool round, and no assistant message for the failed *)
(* call; with the failure at the first decision the user message is last.  *)
(***************************************************************************)
C6_FailedTurnKeepsHistory ==
    outcome = "failed" =>
        /\ store[thread] = Tail(llmInput)
        /\ store[thread] = appended[thread]
        /\ IsPrefix(histBefore \o <<userMsg>>, store[thread])
        /\ AllResultsFollow(store[thread])
        /\ Last(store[thread]).type # "ai"
        /\ (llmCalls = 1 => Last(store[thread]) = userMsg)

C6_Witness ==
    /\ outcome = "failed"
    /\ rounds >= 1
    /\ histBefore # <<>>
    /\ Last(store[thread]).type = "tool"

(***************************************************************************)
(* C7 as stated: after a successful turn the history read back starts with *)
(* the system message, which occurs exactly once.                          *)
(***************************************************************************)
C7_HistoryStartsWithSystem ==
    outcome = "done" =>
        /\ get_conversation_history(thread) # <<>>
        /\ get_conversation_history(thread)[1].role = "system"
        /\ Cardinality({i \in 1..Len(store[thread]) :
                            store[thread][i].type = "system"}) = 1

(***************************************************************************)
(* C7 amended: the system message is never stored: no session's stored     *)
(* history and no history read back contains it, after any number of       *)
(* turns; a non-empty history starts with the session's first user         *)
(* message.                                                                *)
(***************************************************************************)
C7_HistoryHasNoSystem ==
    \A s \in Sessions :
        /\ \A i \in 1..Len(store[s]) : store[s][i].type # "system"
        /\ \A i \in 1..Len(get_conversation_history(s)) :
               get_conversation_history(s)[i].role \in {"user", "assistant"}
        /\ store[s] # <<>> =>
               /\ store[s][1].type = "human"
               /\ get_conversation_history(s)[1]
                    = [role |-> "user", content |-> store[s][1].content.text]

C7_Witness ==
    /\ outcome = "done"
    /\ turns >= 2
    /\ histBefore # <<>>
    /\ Last(histBefore).type = "ai"

(***************************************************************************)
(* C8: the list handed to any backbone invocation starts with the system   *)
(* instruction, which occurs in it exactly once.                           *)
(***************************************************************************)
C8_SystemFirstOnce ==
    llmCalls >= 1 =>
        /\ llmInput[1] = SystemMessage(SYSTEM_PROMPT)
        /\ Cardinality({i \in 1..Len(llmInput) :
                            llmInput[i].type = "system"}) = 1

C8_Witness ==
    /\ llmCalls >= 2
    /\ histBefore # <<>>
    /\ llmInput[1] = SystemMessage(SYSTEM_PROMPT)

(***************************************************************************)
(* C9: the first backbone invocation of a turn receives, behind the system *)
(* instruction, every message added to the thread by its earlier turns     *)
(* followed by the turn's user message, in the order they were added.      *)
(***************************************************************************)
C9_SecondTurnSeesFirst ==
    llmCalls = 1 =>
        Tail(llmInput) = SubSeq(appended[thread], 1, UserIndex)

C9_Witness ==
    /\ llmCalls = 1
    /\ turns = 2
    /\ Len(histBefore) >= 4
    /\ Tail(llmInput) = histBefore \o <<userMsg>>

(***************************************************************************)
(* C10: on a thread without history, a user message answered by a plain    *)
(* text response reads back as exactly two entries: user, then assistant,  *)
(* with the texts submitted and answered.                                  *)
(***************************************************************************)
C10_RoundTrip ==
    (/\ outcome = "done"
     /\ histBefore = <<>>
     /\ llmCalls = 1
     /\ Last(store[thread]).content.kind = "str"
     /\ Last(store[thread]).content.text # EmptyStr)
    => get_conversation_history(thread)
         = << [role |-> "user", content |-> userMsg.content.text],
              [role |-> "assistant",
               content |-> Last(store[thread]).content.text] >>

C10_Witness ==
    /\ outcome = "done"
    /\ histBefore = <<>>
    /\ llmCalls = 1
    /\ Len(get_conversation_history(thread)) = 2
    /\ get_conversation_history(thread)[2].content = <<"a">>

(***************************************************************************)
(* The turn controller with failing tools: one thread, an agent with the   *)
(* incident tools or without them, the PagerDuty session set or not, the   *)
(* API up or failing, and the backbone asking for the incident operations  *)
(* with and without their required argument.                               *)
(***************************************************************************)
\* tool rounds of one turn
MaxToolRounds == 1

ToolsConfigs ==
    {MakeConfig(TRUE, TRUE, FALSE, FALSE, FALSE),
     MakeConfig(TRUE, FALSE, TRUE, FALSE, FALSE)}

IncidentRequests ==
    {Req("pagerduty_get_incident_details", {}),
     Req("pagerduty_acknowledge_incident", {"incident_id"}),
     Req("pagerduty_resolve_incident", {"incident_id"})}

IncidentCallRequests == UNION {[1..k -> IncidentRequests] : k \in 1..MaxCalls}

InitTools ==
    /\ config \in ToolsConfigs
    /\ kubeconfig = FALSE
    /\ pdSession \in {s \in BOOLEAN : s => is_pagerduty_configured(config)}
    /\ backend \in {b \in Backends : ~pdSession => b = "up"}
    /\ TurnInit
    /\ NoFrontEnd

ToolsChat(text) ==
    /\ turns = 0
    /\ Chat("s1", text)

ToolsAgentAsks(reqs) ==
    /\ rounds < MaxToolRounds
    /\ AgentNode(ListContent(<<ToolUseBlock>>), reqs)

ToolsAgentAnswers == AgentNode(StrContent(<<"a">>), <<>>)

ToolsAgentRaises == AgentNodeRaises(<<"rate", "limit">>)

NextTools ==
    \/ \E text \in UserTexts : ToolsChat(text)
    \/ \E reqs \in IncidentCallRequests : ToolsAgentAsks(reqs)
    \/ ToolsAgentAnswers
    \/ ToolsAgentRaises
    \/ ToolNode

SpecTools == InitTools /\ [][NextTools]_vars

\* the text of a tool result is the str() of a dict with key error
HasErrorKey(text) == Contains(text, <<"{'", "error", "': '">>)

\* the requests of the tools node about to run, and the result of the j-th
\* one in the state after the step
PendingCalls == Last(store[thread]).tool_calls

ResultOf(j) == store'[thread][Len(store[thread]) + j]

\* the tools step ran, answered the j-th request and handed over to the
\* agent node with the turn still running
Answered(j) ==
    /\ pc' = "agent"
    /\ outcome' = "running"
    /\ Len(store'[thread]) = Len(store[thread]) + Len(PendingCalls)
    /\ ResultOf(j).type = "tool"
    /\ ResultOf(j).tool_call_id = PendingCalls[j].id

\* API requests of the step for one call
RequestsOf(reqlog, cid) == {i \in 1..Len(reqlog) : reqlog[i].call = cid}

C12_MissingArgumentIsErrorDict ==
    [][pc = "tools" =>
        \A j \in 1..Len(PendingCalls) :
            (PendingCalls[j].name \in tools /\ ~ValidArgs(PendingCalls[j])) =>
                /\ Answered(j)
                /\ HasErrorKey(ResultOf(j).content.text)
                /\ RequestsOf(requests', PendingCalls[j].id) = {}]_vars

(***************************************************************************)
(* C12 amended: a registered tool called without a required argument does  *)
(* not raise and does not end the turn; its tool_result is an error text   *)
(* ("Error: ..." naming the validation error, not a dict with key error),  *)
(* and the wrapped operation is not called.                                *)
(***************************************************************************)
C12_MissingArgumentIsErrorText ==
    [][pc = "tools" =>
        \A j \in 1..Len(PendingCalls) :
            (PendingCalls[j].name \in tools /\ ~ValidArgs(PendingCalls[j])) =>
                /\ Answered(j)
                /\ Head(ResultOf(j).content.text) = "Error: "
                /\ Contains(ResultOf(j).content.text, <<"ValidationError">>)
                /\ ~HasErrorKey(ResultOf(j).content.text)
                /\ RequestsOf(requests', PendingCalls[j].id) = {}]_vars

C12_Witness ==
    /\ pc = "agent"
    /\ rounds >= 1
    /\ pdSession
    /\ requests = <<>>
    /\ Last(store[thread]).type = "tool"
    /\ Contains(Last(store[thread]).content.text, <<"ValidationError">>)

(***************************************************************************)
(* C13: a request for a tool that is not in the registry does not raise    *)
(* and does not end the turn: an error text with the unknown name is       *)
(* appended as the tool_result of the call.                                *)
(***************************************************************************)
C13_UnknownToolIsErrorResult ==
    [][pc = "tools" =>
        \A j \in 1..Len(PendingCalls) :
            PendingCalls[j].name \notin tools =>
                /\ Answered(j)
                /\ Head(ResultOf(j).content.text) = "Error: "
                /\ Contains(ResultOf(j).content.text, <<PendingCalls[j].name>>)
                /\ RequestsOf(requests', PendingCalls[j].id) = {}]_vars

C13_Witness ==
    /\ pc = "agent"
    /\ rounds >= 1
    /\ outcome = "running"
    /\ "pagerduty_acknowledge_incident" \notin tools
    /\ Last(store[thread]).type = "tool"
    /\ Contains(Last(store[thread]).content.text,
                <<"pagerduty_acknowledge_incident">>)

(***************************************************************************)
(* C20: one invocation of acknowledge or resolve sends at most one rput;   *)
(* when it fails the invocation answers with an error result and sends no  *)
(* second one.                                                             *)
(***************************************************************************)
Mutating == {"pagerduty_acknowledge_incident", "pagerduty_resolve_incident"}

C20_AtMostOneMutatingRequest ==
    [][pc = "tools" =>
        \A j \in 1..Len(PendingCalls) :
            PendingCalls[j].name \in Mutating =>
                /\ Cardinality(RequestsOf(requests', PendingCalls[j].id)) <= 1
                /\ \A i \in RequestsOf(requests', PendingCalls[j].id) :
                       requests'[i].method = "rput"
                /\ (Invoked(tools, PendingCalls[j]) /\ pdSession
                        /\ backend # "up") =>
                       /\ Cardinality(RequestsOf(requests',
                                                 PendingCalls[j].id)) = 1
                       /\ HasErrorKey(ResultOf(j).content.text)]_vars

C20_Witness ==
    /\ pc = "agent"
    /\ backend = "forbidden"
    /\ \E i \in 1..Len(requests) : requests[i].method = "rput"
    /\ HasErrorKey(Last(store[thread]).content.text)

(***************************************************************************)
(* C14: an agent without backbone configuration never runs the graph: chat *)
(* returns the fixed not-configured answer, no backbone or tool invocation *)
(* happens and no thread gains a message, not even the user's.             *)
(***************************************************************************)
C14_NotConfiguredNeverDecides ==
    ~is_anthropic_configured(config) =>
        /\ pc = "idle"
        /\ llmTotal = 0
        /\ requests = <<>>
        /\ \A s \in Sessions : store[s] = <<>> /\ appended[s] = <<>>
        /\ outcome \in {"none", "notconfigured"}
        /\ (outcome = "notconfigured" => result = NOT_CONFIGURED)

C14_Witness ==
    /\ outcome = "notconfigured"
    /\ ~is_anthropic_configured(config)
    /\ tools # {}
    /\ result = NOT_CONFIGURED

(***************************************************************************)
(* The capability gate: agents built from every configuration, asked for   *)
(* their status while the kubeconfig file comes and goes.                  *)
(***************************************************************************)
InitConfig ==
    /\ config \in Configs
    /\ kubeconfig \in BOOLEAN
    /\ pdSession = is_pagerduty_configured(config)
    /\ backend = "up"
    /\ TurnInit
    /\ NoFrontEnd

NextConfig ==
    \/ GetStatus
    \/ KubeconfigChanges

SpecConfig == InitConfig /\ [][NextConfig]_vars

\* what get_status must leave alone: the agent and the sessions
AgentAndSessions ==
    <<config, llm, registry, tools, pdSession, store, pc, thread, rounds,
      nextId, turns, outcome, result, llmCalls, llmTotal, appended>>

\* the capability flags of a status
Flags(st) ==
    <<st.claude_configured, st.datadog_configured, st.pagerduty_configured,
      st.kubernetes_configured, st.sqs_configured>>

Holds(names) == names \subseteq Range(registry)

HoldsNone(names) == names \cap Range(registry) = {}

C19_RegistryFollowsGates ==
    /\ IF config.datadog_api_key # EmptyStr /\ config.datadog_app_key # EmptyStr
       THEN Holds(DatadogToolNames) ELSE HoldsNone(DatadogToolNames)
    /\ IF config.pagerduty_api_key # EmptyStr
       THEN Holds(PagerDutyToolNames) ELSE HoldsNone(PagerDutyToolNames)
    /\ IF config.k8s_enabled /\ kubeBuilt
       THEN Holds(KubernetesToolNames) ELSE HoldsNone(KubernetesToolNames)
    /\ IF config.sqs_enabled
       THEN Holds(SqsToolNames) ELSE HoldsNone(SqsToolNames)
    /\ Range(registry) \subseteq
           DatadogToolNames \cup PagerDutyToolNames
               \cup KubernetesToolNames \cup SqsToolNames
    /\ \A i, j \in 1..Len(registry) : registry[i] = registry[j] => i = j
    /\ tools = Range(registry)

C19_Witness ==
    /\ config.datadog_api_key # EmptyStr
    /\ config.datadog_app_key = EmptyStr
    /\ config.k8s_enabled
    /\ ~kubeBuilt
    /\ kubeconfig
    /\ registry = create_pagerduty_tools \o create_sqs_tools

(***************************************************************************)
(* chat_stream: turns of one thread through the generator, consumed to the *)
(* end, on agents with and without the backbone and the incident tools.    *)
(***************************************************************************)
StreamConfigs ==
    {MakeConfig(TRUE, FALSE, TRUE, FALSE, FALSE),
     MakeConfig(TRUE, TRUE, FALSE, FALSE, FALSE),
     MakeConfig(FALSE, FALSE, TRUE, FALSE, FALSE)}

InitStream ==
    /\ config \in StreamConfigs
    /\ kubeconfig = FALSE
    /\ pdSession = is_pagerduty_configured(config)
    /\ backend = "up"
    /\ TurnInit
    /\ NoFrontEnd

NextStream ==
    \/ \E text \in UserTexts : ChatStreamNotConfigured("s1", text)
    \/ \E text \in UserTexts : ChatStream("s1", text)
    \/ \E content \in Contents, reqs \in CallRequests : AgentNode(content, reqs)
    \/ \E error_str \in ErrorTexts : AgentNodeRaises(error_str)
    \/ ToolNode

SpecStream == InitStream /\ [][NextStream]_vars

(***************************************************************************)
(* C16 as stated, for the failure kind: a chat_stream turn that fails ends *)
(* with what chat returns for the same backbone failure (the sentinel for  *)
(* a context-limit error, "Error: ..." otherwise).                         *)
(***************************************************************************)
C16_StreamFailsWithChatsKind ==
    (stream /\ outcome = "failed") =>
        /\ fragments # <<>>
        /\ Last(fragments) = ChatExcept(errText).result
        /\ store[thread] = CheckpointAfterError(store[thread], histBefore)

\* the messages the turn has added behind the user's message
TurnMessages ==
    SubSeq(store[thread], Len(histBefore) + 2, Len(store[thread]))

\* the text fragments of an assistant message: its string content, or the
\* texts of its text blocks, when not empty
TextFragments(m) ==
    IF m.content.kind = "str"
    THEN IF m.content.text = EmptyStr THEN <<>> ELSE <<m.content.text>>
    ELSE LET texts == SelectSeq(m.content.blocks,
                                LAMBDA b : b.type = "text" /\ b.text # EmptyStr)
         IN [i \in 1..Len(texts) |-> texts[i].text]

\* one marker per tool-call request, in order
MarkerFragments(m) ==
    [j \in 1..Len(m.tool_calls) |-> <<"*Using ", m.tool_calls[j].name, "...*">>]

RECURSIVE ExpectedFragments(_)
ExpectedFragments(ms) ==
    IF ms = <<>> THEN <<>>
    ELSE (IF Head(ms).type = "ai"
          THEN TextFragments(Head(ms)) \o MarkerFragments(Head(ms))
          ELSE <<>>)
         \o ExpectedFragments(Tail(ms))

(***************************************************************************)
(* C17: what a chat_stream call has yielded is, for each assistant message *)
(* of the turn in the order appended, its text fragments followed by one   *)
(* marker per tool-call request naming the tool (then the error fragment   *)
(* when the turn failed).                                                  *)
(***************************************************************************)
C17_MarkersFollowText ==
    (stream /\ outcome \in {"running", "done", "failed"}) =>
        \E tail \in {<<>>, <<ErrorPrefix \o errText>>} :
            /\ tail # <<>> <=> outcome = "failed"
            /\ fragments = ExpectedFragments(TurnMessages) \o tail

C17_Witness ==
    /\ stream
    /\ outcome = "done"
    /\ fragments = <<<<"b">>, <<"*Using ", "pagerduty_get_oncall", "...*">>,
                     <<"*Using ", "pagerduty_get_oncall", "...*">>, <<"a">>>>

(***************************************************************************)
(* One turn against a backbone that may ask for a tool in every decision:  *)
(* no budget of backbone invocations, the graph's own step limit only.     *)
(***************************************************************************)
InitLoop ==
    /\ config \in ToolsConfigs
    /\ kubeconfig = FALSE
    /\ pdSession = is_pagerduty_configured(config)
    /\ backend \in Backends
    /\ TurnInit
    /\ NoFrontEnd

LoopChat(text) ==
    /\ turns = 0
    /\ stream' = FALSE
    /\ Submit("s1", text, ChatInputState(nextId, text))
    /\ UNCHANGED frontVars

LoopAgentAsks ==
    AgentStep(ListContent(<<ToolUseBlock>>), <<Req("pagerduty_get_oncall", {})>>)

LoopAgentAnswers == AgentStep(StrContent(<<"a">>), <<>>)

NextLoop ==
    \/ \E text \in UserTexts : LoopChat(text)
    \/ LoopAgentAsks
    \/ LoopAgentAnswers
    \/ ToolNode
    \/ GraphOutOfSteps

SpecLoop == InitLoop /\ [][NextLoop]_vars

(***************************************************************************)
(* C15: a turn whose backbone asks for a tool in every decision ends       *)
(* FAILED with an error kind of its own: what chat returns is not the      *)
(* generic "Error: <message>" of any other failure.                        *)
(***************************************************************************)
C15_LoopExhaustionIsDistinctKind ==
    (pc = "idle" /\ outcome = "failed" /\ errText = GraphRecursionError) =>
        ~IsPrefix(ErrorPrefix, result)

(***************************************************************************)
(* C25: when a backbone call raises, chat returns the sentinel iff the     *)
(* error text contains "prompt is too long" or both "tokens" and           *)
(* "maximum"; for every other text it returns "Error: " and the text.      *)
(***************************************************************************)
C25_SentinelIffLimitText ==
    (~stream /\ outcome = "failed") =>
        LET limit == \/ Contains(errText, <<"prompt", "is", "too", "long">>)
                     \/ /\ Contains(errText, <<"tokens">>)
                        /\ Contains(errText, <<"maximum">>)
        IN /\ limit <=> result = CONVERSATION_LIMIT_EXCEEDED
           /\ ~limit => result = <<"Error: ">> \o errText

C25_Witness ==
    /\ ~stream
    /\ outcome = "failed"
    /\ errText = <<"too", "many", "tokens">>
    /\ result = <<"Error: ", "too", "many", "tokens">>

\* the ids of the messages of a list
Ids(ms) == {ms[i].id : i \in 1..Len(ms)}

ScenarioA ==
    /\ ~stream
    /\ outcome = "done"
    /\ histBefore = <<>>
    /\ "pagerduty_get_oncall" \in tools
    /\ rounds = 1
    /\ llmCalls = 2
    /\ Len(appended[thread][2].tool_calls) = 1
    /\ Last(appended[thread]).content.kind = "str"
    /\ Last(appended[thread]).content.text # EmptyStr

\* the types of the messages of a history read back, system message
\* included when stored
Kinds(ms) == [i \in 1..Len(ms) |-> ms[i].type]

(***************************************************************************)
(* C23 as stated: after Scenario A the session history is exactly the five *)
(* messages system, user, assistant with tool call, tool result, assistant *)
(* final, and chat returned the final text.                                *)
(***************************************************************************)
C23_ScenarioAFiveMessages ==
    ScenarioA =>
        /\ result = Last(store[thread]).content.text
        /\ Kinds(store[thread]) = <<"system", "human", "ai", "tool", "ai">>

(***************************************************************************)
(* C23 amended: after Scenario A chat returned the final plain text and    *)
(* the session history is exactly the four messages user, assistant with   *)
(* the on-call tool call, its tool result, assistant final; the system     *)
(* message heads only the lists handed to the backbone.                    *)
(***************************************************************************)
C23_ScenarioAFourMessages ==
    ScenarioA =>
        LET h == store[thread]
        IN /\ result = Last(h).content.text
           /\ Kinds(h) = <<"human", "ai", "tool", "ai">>
           /\ h[1] = userMsg
           /\ h[2].tool_calls[1].name = "pagerduty_get_oncall"
           /\ h[2].tool_calls[1].args = {}
           /\ h[3].tool_call_id = h[2].tool_calls[1].id
           /\ h[4].tool_calls = <<>>
           /\ llmInput = <<SystemMessage(SYSTEM_PROMPT), h[1], h[2], h[3]>>

C23_Witness ==
    /\ ScenarioA
    /\ result = <<"a">>
    /\ Len(store[thread]) = 4
    /\ store[thread][2].content = ListContent(<<TextBlock(<<"b">>), ToolUseBlock>>)

(***************************************************************************)
(* Calls without a thread id, through chat and chat_stream, among calls on *)
(* a named session.                                                        *)
(***************************************************************************)
InitFresh ==
    /\ config = MakeConfig(TRUE, FALSE, TRUE, FALSE, FALSE)
    /\ kubeconfig = FALSE
    /\ pdSession = TRUE
    /\ backend = "up"
    /\ TurnInit
    /\ NoFrontEnd

NextFresh ==
    \/ \E text \in UserTexts : Chat(None, text)
    \/ \E text \in UserTexts : ChatStream(None, text)
    \/ \E text \in UserTexts : Chat("s1", text)
    \/ \E content \in Contents, reqs \in CallRequests : AgentNode(content, reqs)
    \/ \E error_str \in ErrorTexts : AgentNodeRaises(error_str)
    \/ ToolNode

SpecFresh == InitFresh /\ [][NextFresh]_vars

(***************************************************************************)
(* C24: a chat or chat_stream call without a thread id runs on a thread    *)
(* that no earlier call used and that starts empty: its first backbone     *)
(* invocation is handed the system message and the call's user message     *)
(* only, and the thread never holds a message of an earlier call.          *)
(***************************************************************************)
C24_NoIdMeansFreshThread ==
    (arg = None /\ turns >= 1) =>
        /\ thread \notin Sessions
        /\ histBefore = <<>>
        /\ \A i \in 1..Len(store[thread]) : store[thread][i].id >= userMsg.id
        /\ llmCalls = 1 =>
               llmInput = <<SystemMessage(SYSTEM_PROMPT), userMsg>>

C24_Witness ==
    /\ arg = None
    /\ stream
    /\ uuids = 2
    /\ thread = "u2"
    /\ store["u1"] # <<>>
    /\ store["s1"] # <<>>
    /\ llmCalls = 1
    /\ llmInput = <<SystemMessage(SYSTEM_PROMPT), userMsg>>

(***************************************************************************)
(* C29: chat_stream does not raise.  An exception raised while the graph   *)
(* is streamed, also after fragments were yielded, ends the stream with    *)
(* one last fragment "Error: " followed by the error text; without a       *)
(* compiled graph the stream is the not-configured fragment alone.         *)
(***************************************************************************)
C29_StreamEndsWithErrorFragment ==
    /\ (stream /\ outcome = "failed") =>
           /\ pc = "idle"
           /\ fragments =
                  ExpectedFragments(TurnMessages) \o <<ErrorPrefix \o errText>>
    /\ (stream /\ outcome = "notconfigured") =>
           /\ pc = "idle"
           /\ fragments = <<NOT_CONFIGURED>>
           /\ store[thread] = <<>>

C29_Witness ==
    /\ stream
    /\ outcome = "failed"
    /\ IsTokenLimit(errText)
    /\ Len(fragments) >= 3
    /\ Last(fragments) = ErrorPrefix \o errText

(***************************************************************************)
(* The operations of the agent that read, and the agent built again.       *)
(***************************************************************************)
\* get_conversation_history(thread_id), between two calls of chat
GetHistory(tid) ==
    /\ pc = "idle"
    /\ histRead' = get_conversation_history(tid)
    /\ UNCHANGED <<config, kubeconfig, llm, registry, tools, kubeBuilt,
                   pdSession, backend, statusLog, requests, store, pc, thread,
                   rounds, nextId, turns, outcome, result, errText, llmInput,
                   llmCalls, llmTotal, histBefore, userMsg, appended, stream,
                   fragments, steps, arg, uuids, agentNo, frontVars>>

\* clear_history dropping the thread's checkpoint
ClearHistoryErases(tid) ==
    /\ pc = "idle"
    /\ store' = [store EXCEPT ![tid] = <<>>]
    /\ UNCHANGED <<agentVars, requests, pc, thread, rounds, nextId, turns,
                   outcome, result, errText, llmInput, llmCalls, llmTotal,
                   histBefore, userMsg, appended, stream, fragments, steps,
                   arg, uuids, frontVars>>

\* clear_history(thread_id): pass
ClearHistory(tid) ==
    /\ pc = "idle"
    /\ UNCHANGED vars

\* a new agent handed the checkpointer of the one it replaces
NewAgentKeepsStore ==
    /\ config' = config
    /\ llm' = SetupGraph(config)
    /\ registry' = setup_tools(config, kubeconfig)
    /\ tools' = SetupTools(config, kubeconfig)
    /\ kubeBuilt' = kubeconfig
    /\ pdSession' = is_pagerduty_configured(config)
    /\ store' = store
    /\ appended' = appended
    /\ turns' = 0
    /\ statusLog' = <<>>
    /\ histRead' = <<>>

\* SREAgent(config=Config.from_env()): __post_init__ of a new object, the
\* environment being the one of the process; its checkpointer is a new
\* MemorySaver
NewAgent ==
    /\ config' = config
    /\ llm' = SetupGraph(config)
    /\ registry' = setup_tools(config, kubeconfig)
    /\ tools' = SetupTools(config, kubeconfig)
    /\ kubeBuilt' = kubeconfig
    /\ pdSession' = is_pagerduty_configured(config)
    /\ store' = [s \in Threads |-> <<>>]
    /\ appended' = [s \in Threads |-> <<>>]
    /\ turns' = 0
    /\ statusLog' = <<>>
    /\ histRead' = <<>>

\* what the construction of an agent leaves alone
notAgent == <<kubeconfig, backend, requests, pc, thread, rounds, nextId,
              outcome, result, errText, llmInput, llmCalls, llmTotal,
              histBefore, userMsg, stream, fragments, steps, arg, uuids>>

\* the Refresh button building the tools of the agent at hand again
RefreshInPlace ==
    /\ pc = "idle"
    /\ front = "idle"
    /\ agentNo < MaxAgents
    /\ agentNo' = agentNo
    /\ NewAgent
    /\ UNCHANGED <<notAgent, frontVars>>

\* the Refresh button: st.session_state.agent = get_agent(); st.rerun()
Refresh ==
    /\ pc = "idle"
    /\ front = "idle"
    /\ agentNo < MaxAgents
    /\ agentNo' = agentNo + 1
    /\ NewAgent
    /\ UNCHANGED <<notAgent, frontVars>>

\* get_status between two calls of chat
IdleGetStatus ==
    /\ pc = "idle"
    /\ GetStatus

\* the kubeconfig file created or removed between two calls
IdleKubeconfigChanges ==
    /\ pc = "idle"
    /\ KubeconfigChanges

InitOps ==
    /\ config = MakeConfig(TRUE, FALSE, TRUE, FALSE, FALSE)
    /\ kubeconfig = FALSE
    /\ pdSession = TRUE
    /\ backend = "up"
    /\ TurnInit
    /\ NoFrontEnd

\* the backbone of this exploration: a plain answer, or tool-call requests
OpsContents == {StrContent(<<"a">>), ListContent(<<ToolUseBlock>>)}

\* and the one failure
OpsErrors == {<<"rate", "limit">>}

NextOps ==
    \/ \E text \in UserTexts : Chat("s1", text)
    \/ \E text \in UserTexts : ChatStream("s2", text)
    \/ \E content \in OpsContents, reqs \in CallRequests :
           AgentNode(content, reqs)
    \/ \E error_str \in OpsErrors : AgentNodeRaises(error_str)
    \/ ToolNode
    \/ \E tid \in Sessions : GetHistory(tid)
    \/ \E tid \in Sessions : ClearHistory(tid)
    \/ IdleGetStatus

SpecOps == InitOps /\ [][NextOps]_vars

InitRefresh ==
    /\ config = MakeConfig(TRUE, FALSE, TRUE, TRUE, FALSE)
    /\ kubeconfig = FALSE
    /\ pdSession = TRUE
    /\ backend = "up"
    /\ TurnInit
    /\ NoFrontEnd

NextRefresh ==
    \/ \E text \in UserTexts : Chat("s1", text)
    \/ \E text \in UserTexts : ChatStream("s1", text)
    \/ \E content \in OpsContents, reqs \in CallRequests :
           AgentNode(content, reqs)
    \/ \E error_str \in OpsErrors : AgentNodeRaises(error_str)
    \/ ToolNode
    \/ GetHistory("s1")
    \/ ClearHistory("s1")
    \/ IdleGetStatus
    \/ IdleKubeconfigChanges
    \/ Refresh

SpecRefresh == InitRefresh /\ [][NextRefresh]_vars

(***************************************************************************)
(* C26: the tool set of an agent is the one its construction built.  No    *)
(* chat, chat_stream, get_conversation_history, clear_history or           *)
(* get_status call changes the registered tools or the tools bound to the  *)
(* backbone; a refresh builds another agent object, and does so while no   *)
(* turn runs on the one it replaces.                                       *)
(***************************************************************************)
C26_ToolSetFixedPerAgent ==
    /\ [](/\ registry = setup_tools(config, kubeBuilt)
          /\ tools = Range(registry))
    /\ [][agentNo' = agentNo =>
              /\ registry' = registry
              /\ tools' = tools
              /\ kubeBuilt' = kubeBuilt]_vars
    /\ [][agentNo' # agentNo => pc = "idle" /\ pc' = "idle"]_vars

C26_Witness ==
    /\ agentNo = 2
    /\ Len(registry) = 11
    /\ ~kubeconfig
    /\ statusLog # <<>>
    /\ histRead # <<>>
    /\ pc = "tools"

\* the number of tools of the integrations a status reports as configured
ToolsOfConfigured(st) ==
    (IF st.datadog_configured THEN Len(create_datadog_tools) ELSE 0)
    + (IF st.pagerduty_configured THEN Len(create_pagerduty_tools) ELSE 0)
    + (IF st.kubernetes_configured THEN Len(create_kubernetes_tools) ELSE 0)
    + (IF st.sqs_configured THEN Len(create_sqs_tools) ELSE 0)

(***************************************************************************)
(* C27 as stated: whenever get_status is called after construction, each   *)
(* integration's flag is true iff the integration's tools are in the       *)
(* agent's tool list, and available_tools is the number of tools of the    *)
(* integrations reported as configured.                                    *)
(***************************************************************************)
C27_StatusAgreesWithRegistry ==
    statusLog # <<>> =>
        LET st == statusLog[Len(statusLog)].status
            has(names) == Range(names) \subseteq Range(registry)
        IN /\ st.datadog_configured <=> has(create_datadog_tools)
           /\ st.pagerduty_configured <=> has(create_pagerduty_tools)
           /\ st.kubernetes_configured <=> has(create_kubernetes_tools)
           /\ st.sqs_configured <=> has(create_sqs_tools)
           /\ st.available_tools = ToolsOfConfigured(st)

(***************************************************************************)
(* The chat page.  A run of the page's script handles one event of the     *)
(* browser: a button of the sidebar, or a user input, for which the run    *)
(* stays inside agent.chat until the turn has ended.                       *)
(***************************************************************************)
\* the assistant entry stored for the sentinel
LIMIT_TEXT ==
    <<"This conversation has exceeded the token limit. Please start a new chat to continue.">>

\* an entry of st.session_state.messages
Entry(role, content) == [role |-> role, content |-> content]

\* init_session_state of the first run: messages, thread_id (the agent is
\* the one TurnInit describes)
init_session_state ==
    /\ st_messages = <<>>
    /\ st_thread_id = uuid4(0)
    /\ uuids = 1
    /\ front = "idle"

\* the response stored when chat returned: the sentinel is replaced
StoredResponse(response) ==
    IF response = CONVERSATION_LIMIT_EXCEEDED THEN LIMIT_TEXT ELSE response

\* render_chat, a user input: the user entry is appended and agent.chat is
\* called with the session's thread id (render_chat returns before the
\* input when the status says the backbone or the graph is missing)
FrontInput(text) ==
    /\ front = "idle"
    /\ get_status(config, kubeconfig, registry, llm).claude_configured
    /\ get_status(config, kubeconfig, registry, llm).graph_ready
    /\ text # EmptyStr
    /\ llmTotal < MaxLlmCalls
    /\ st_messages' = Append(st_messages, Entry("user", text))
    /\ stream' = FALSE
    /\ Submit(st_thread_id, text, ChatInputState(nextId, text))
    /\ front' = "waiting"
    /\ UNCHANGED st_thread_id

\* render_chat, agent.chat has returned: the assistant entry is appended
\* and the page runs again
FrontAnswer ==
    /\ front = "waiting"
    /\ pc = "idle"
    /\ st_messages' = Append(st_messages, Entry("assistant", StoredResponse(result)))
    /\ front' = "idle"
    /\ UNCHANGED <<agentVars, notAgent, store, appended, turns, st_thread_id>>

\* a widget event reached the server while agent.chat ran: the run is
\* stopped at its next Streamlit command (st.markdown or st.error of the
\* response) by an exception that `except Exception` does not catch, and
\* the page runs again for the event
Interrupted ==
    /\ front = "waiting"
    /\ pc = "idle"
    /\ front' = "idle"
    /\ UNCHANGED <<agentVars, notAgent, store, appended, turns, st_messages,
                   st_thread_id>>

\* the New Chat button
NewChat ==
    /\ front = "idle"
    /\ uuids < MaxUuids
    /\ st_messages' = <<>>
    /\ st_thread_id' = uuid4(uuids)
    /\ uuids' = uuids + 1
    /\ UNCHANGED <<agentVars, requests, store, pc, thread, rounds, nextId,
                   turns, outcome, result, errText, llmInput, llmCalls,
                   llmTotal, histBefore, userMsg, appended, stream, fragments,
                   steps, arg, front>>

\* failures of the backbone on the page: a context-limit one, another one
FrontErrors == {<<"prompt", "is", "too", "long">>, <<"rate", "limit">>}

InitFront ==
    /\ config = MakeConfig(TRUE, FALSE, TRUE, FALSE, FALSE)
    /\ kubeconfig = FALSE
    /\ pdSession = TRUE
    /\ backend = "up"
    /\ TurnInit
    /\ init_session_state

NextFront ==
    \/ \E text \in UserTexts : FrontInput(text)
    \/ \E content \in OpsContents, reqs \in CallRequests :
           AgentNode(content, reqs)
    \/ \E error_str \in FrontErrors : AgentNodeRaises(error_str)
    \/ ToolNode
    \/ FrontAnswer
    \/ Interrupted
    \/ NewChat
    \/ Refresh

SpecFront == InitFront /\ [][NextFront]_vars

(***************************************************************************)
(* C28 as stated: the displayed transcript always alternates user and      *)
(* assistant entries, starting with a user entry: every processed input    *)
(* has added one user entry and then one assistant entry; and the raw      *)
(* sentinel is never stored as an assistant entry.                         *)
(***************************************************************************)
C28_TranscriptAlternates ==
    /\ \A i \in 1..Len(st_messages) :
           /\ st_messages[i].role = (IF i % 2 = 1 THEN "user" ELSE "assistant")
           /\ st_messages[i].content # CONVERSATION_LIMIT_EXCEEDED
    /\ front = "idle" => Len(st_messages) % 2 = 0
    /\ front = "waiting" => Len(st_messages) % 2 = 1

(***************************************************************************)
(* C30: Refresh leaves the thread id and the transcript as they are and    *)
(* puts a new agent with an empty conversation store in the session, so    *)
(* the first backbone invocation of the next turn is handed the system     *)
(* message and the new user message only; the thread id changes by New     *)
(* Chat alone, which also empties the transcript.                          *)
(***************************************************************************)
C30_RefreshAndNewChat ==
    /\ [][agentNo' # agentNo =>
              /\ st_thread_id' = st_thread_id
              /\ st_messages' = st_messages
              /\ \A s \in Threads : store'[s] = <<>>]_vars
    /\ [](front = "waiting" => thread = st_thread_id)
    /\ []((agentNo > 1 /\ turns = 1 /\ llmCalls = 1) =>
              llmInput = <<SystemMessage(SYSTEM_PROMPT), userMsg>>)
    /\ [][st_thread_id' # st_thread_id =>
              /\ st_thread_id' = uuid4(uuids)
              /\ uuids' = uuids + 1
              /\ st_messages' = <<>>
              /\ agentNo' = agentNo
              /\ store' = store]_vars

C30_Witness ==
    /\ agentNo = 2
    /\ turns = 1
    /\ llmCalls = 1
    /\ st_thread_id = "u1"
    /\ thread = "u1"
    /\ front = "waiting"
    /\ Len(st_messages) = 3
    /\ llmInput = <<SystemMessage(SYSTEM_PROMPT), userMsg>>

====
